---- MODULE Spec2Model ----
(***************************************************************************)
(* The component-composition core of explainerdashboard:                   *)
(*   dashboard_components/dashboard_methods.py                             *)
(*     delegates_kwargs, ExplainerComponent, PosLabelSelector              *)
(*                                                                         *)
(* An ExplainerComponent owns a list of registered subcomponents           *)
(* (_components) and a list of dependency strings (_dependencies).  The    *)
(* properties dependencies / pos_labels and the method register_callbacks  *)
(* walk the registered subcomponents recursively.                          *)
(***************************************************************************)
EXTENDS Naturals, Sequences, FiniteSets

VARIABLES
    name,           \* name[c]: self.name, NoName while c is not constructed
    selector,       \* selector[c]: the attribute self.selector (or NoAttr)
    _components,    \* _components[c]: self._components, a list of components
    _dependencies,  \* _dependencies[c]: self._dependencies, a list of str
    registered,     \* history: the strings passed to register_dependencies of c
    hashSeed,       \* the iteration order of a set of str in this process
    ret,            \* the last call: operation, receiver, outcome, value
    sig             \* delegates_kwargs: the inputs and the outcome of one use

vars == <<name, selector, _components, _dependencies, registered,
          hashSeed, ret, sig>>

(***************************************************************************)
(* Bounds of the model.                                                    *)
(***************************************************************************)
NComp == 3          \* components that exist
MaxEdges == 2       \* registered subcomponent entries, over all components
MaxArgs == 2        \* positional arguments of one register_* call
MaxItems == 1       \* elements of an iterable argument
MaxDeps == 2        \* entries of the _dependencies lists when registering
MaxDepLen == 4      \* entries of the _dependencies lists, over all components
MaxParams == 3      \* parameters of a decorated function
MaxTargetParams == 2 \* parameters of a function or __init__ delegated to
MaxBases == 2       \* base classes of a decorated class

Comps == 1..NComp

\* Python's recursion limit, scaled: deeper than any acyclic nesting of Comps.
RecursionLimit == NComp + 1

(***************************************************************************)
(* Sequence helpers.                                                       *)
(***************************************************************************)
Range(s) == {s[i] : i \in 1..Len(s)}

NoDup(s) == \A i, j \in 1..Len(s) : i # j => s[i] # s[j]

SeqsUpTo(S, n) == UNION {[1..k -> S] : k \in 0..n}

RECURSIVE SumLen(_, _)
SumLen(f, S) ==
    IF S = {} THEN 0
    ELSE LET c == CHOOSE x \in S : TRUE
         IN Len(f[c]) + SumLen(f, S \ {c})

(***************************************************************************)
(* Python values passed to register_components, by what the code asks of   *)
(* them: isinstance(ExplainerComponent), hasattr('__iter__'), __name__.    *)
(*   "comp"     an ExplainerComponent (id: which one)                      *)
(*   "iterable" a list/tuple (items: its elements)                         *)
(*   "named"    an object with __name__ and no __iter__ (a class, a        *)
(*              function)                                                  *)
(*   "unnamed"  an object with neither (None, a number, an instance of     *)
(*              another class); as an element, also a nested list         *)
(***************************************************************************)
CompElems ==
    [t : {"comp"}, id : Comps] \cup [t : {"named", "unnamed"}, id : {0}]

CompArgs ==
    [t : {"comp"}, id : Comps, items : {<<>>}]
        \cup [t : {"named", "unnamed"}, id : {0}, items : {<<>>}]
        \cup [t : {"iterable"}, id : {0}, items : SeqsUpTo(CompElems, MaxItems)]

\* The arguments that are components only, as the composites pass them,
\* and the lists of components.
CompOnlyArgs ==
    [t : {"comp"}, id : Comps, items : {<<>>}]

CompListArgs ==
    [t : {"iterable"}, id : {0},
     items : SeqsUpTo([t : {"comp"}, id : Comps], MaxItems)]

UserNames == {"stats", "shap"}
None == "<None>"
NoName == "<unconstructed>"
NoSig == [phase |-> "none"]
NoAttr == [cls |-> "<no attribute>", name |-> ""]
NoRet == [op |-> "none", self |-> 0, outcome |-> "ok", value |-> <<>>]

(***************************************************************************)
(* register_components: the loop over *components.  The result is the new  *)
(* list and whether the loop ended by an exception (print of x.__name__ on *)
(* an object that has no __name__ raises AttributeError).  __init__ has    *)
(* set _components and _dependencies, so the hasattr guards do nothing.    *)
(***************************************************************************)
RECURSIVE AddSubcomps(_, _)
AddSubcomps(list, items) ==
    IF items = <<>> THEN [list |-> list, exc |-> FALSE]
    ELSE LET subcomp == Head(items)
         IN CASE subcomp.t = "comp" ->
                    AddSubcomps(Append(list, subcomp.id), Tail(items))
              [] subcomp.t = "named" ->
                    AddSubcomps(list, Tail(items))
              [] OTHER ->
                    [list |-> list, exc |-> TRUE]

RECURSIVE AddComps(_, _)
AddComps(list, components) ==
    IF components = <<>> THEN [list |-> list, exc |-> FALSE]
    ELSE LET comp == Head(components)
         IN CASE comp.t = "comp" ->
                    AddComps(Append(list, comp.id), Tail(components))
              [] comp.t = "iterable" ->
                    LET r == AddSubcomps(list, comp.items)
                    IN IF r.exc THEN r ELSE AddComps(r.list, Tail(components))
              [] comp.t = "named" ->
                    AddComps(list, Tail(components))
              [] OTHER ->
                    [list |-> list, exc |-> TRUE]

RegisterComponents(self, components) ==
    LET r == AddComps(_components[self], components)
        new == [_components EXCEPT ![self] = r.list]
    IN /\ SumLen(new, Comps) <= MaxEdges
       /\ _components' = new
       /\ ret' = [op |-> "register_components", self |-> self,
                  outcome |-> IF r.exc THEN "AttributeError" ELSE "ok",
                  value |-> <<>>]
       /\ UNCHANGED <<name, selector, _dependencies, registered,
                      hashSeed, sig>>

(***************************************************************************)
(* register_callbacks: subcomponents first, in list order, then the        *)
(* component's own _register_callbacks.  The log records every entry into  *)
(* register_callbacks ("call") and every _register_callbacks ("own").      *)
(* A cyclic registration recurses until Python's recursion limit.          *)
(***************************************************************************)
Event(ev, c) == [ev |-> ev, comp |-> c]

\* A variant that calls _register_callbacks before the subcomponents.
RECURSIVE CallbacksOwnFirst(_, _, _)
RECURSIVE CallbacksOwnFirstLoop(_, _, _, _)
CallbacksOwnFirstLoop(self, i, log, fuel) ==
    IF i > Len(_components[self])
    THEN [log |-> log, err |-> FALSE]
    ELSE LET r == CallbacksOwnFirst(_components[self][i], log, fuel - 1)
         IN IF r.err THEN r ELSE CallbacksOwnFirstLoop(self, i + 1, r.log, fuel)

CallbacksOwnFirst(self, log, fuel) ==
    IF fuel = 0 THEN [log |-> log, err |-> TRUE]
    ELSE CallbacksOwnFirstLoop(self, 1,
            log \o <<Event("call", self), Event("own", self)>>, fuel)

RECURSIVE CallbacksOf(_, _, _)
RECURSIVE CallbacksLoop(_, _, _, _)
CallbacksLoop(self, i, log, fuel) ==
    IF i > Len(_components[self])
    THEN [log |-> Append(log, Event("own", self)), err |-> FALSE]
    ELSE LET r == CallbacksOf(_components[self][i], log, fuel - 1)
         IN IF r.err THEN r ELSE CallbacksLoop(self, i + 1, r.log, fuel)

CallbacksOf(self, log, fuel) ==
    IF fuel = 0 THEN [log |-> log, err |-> TRUE]
    ELSE CallbacksLoop(self, 1, Append(log, Event("call", self)), fuel)

RegisterCallbacks(self) ==
    LET r == CallbacksOf(self, <<>>, RecursionLimit)
    IN /\ ret' = [op |-> "register_callbacks", self |-> self,
                  outcome |-> IF r.err THEN "RecursionError" ELSE "ok",
                  value |-> r.log]
       /\ UNCHANGED <<name, selector, _components, _dependencies, registered,
                      hashSeed, sig>>

(***************************************************************************)
(* Python values passed to register_dependencies: "str" (s: the string),   *)
(* "iterable" (a list/tuple that is no str), "named", "unnamed" as above.  *)
(***************************************************************************)
DepSeq == <<"preds", "shap_values">>

DepNames == Range(DepSeq)

DepElems ==
    [t : {"str"}, s : DepNames] \cup [t : {"named", "unnamed"}, s : {""}]

DepArgs ==
    [t : {"str"}, s : DepNames, items : {<<>>}]
        \cup [t : {"named", "unnamed"}, s : {""}, items : {<<>>}]
        \cup [t : {"iterable"}, s : {""}, items : SeqsUpTo(DepElems, MaxItems)]

\* Strings and lists of strings, as the components pass them.
StrArgs ==
    [t : {"str"}, s : DepNames, items : {<<>>}]
        \cup [t : {"iterable"}, s : {""},
              items : SeqsUpTo([t : {"str"}, s : DepNames], MaxItems)]

(***************************************************************************)
(* register_dependencies: the loop over *dependencies.                     *)
(***************************************************************************)
RECURSIVE AddSubdeps(_, _)
AddSubdeps(list, items) ==
    IF items = <<>> THEN [list |-> list, exc |-> FALSE]
    ELSE LET subdep == Head(items)
         IN CASE subdep.t = "str" ->
                    AddSubdeps(Append(list, subdep.s), Tail(items))
              [] subdep.t = "named" ->
                    AddSubdeps(list, Tail(items))
              [] OTHER ->
                    [list |-> list, exc |-> TRUE]

RECURSIVE AddDeps(_, _)
AddDeps(list, dependencies) ==
    IF dependencies = <<>> THEN [list |-> list, exc |-> FALSE]
    ELSE LET dep == Head(dependencies)
         IN CASE dep.t = "str" ->
                    AddDeps(Append(list, dep.s), Tail(dependencies))
              [] dep.t = "iterable" ->
                    LET r == AddSubdeps(list, dep.items)
                    IN IF r.exc THEN r ELSE AddDeps(r.list, Tail(dependencies))
              [] dep.t = "named" ->
                    AddDeps(list, Tail(dependencies))
              [] OTHER ->
                    [list |-> list, exc |-> TRUE]

RegisterDependencies(self, dependencies) ==
    LET old == _dependencies[self]
        r == AddDeps(old, dependencies)
        new == [_dependencies EXCEPT ![self] = r.list]
    IN /\ SumLen(new, Comps) <= MaxDeps
       /\ _dependencies' = new
       /\ registered' = [registered EXCEPT ![self] =
                            @ \cup Range(SubSeq(r.list, Len(old) + 1, Len(r.list)))]
       /\ ret' = [op |-> "register_dependencies", self |-> self,
                  outcome |-> IF r.exc THEN "AttributeError" ELSE "ok",
                  value |-> <<>>]
       /\ UNCHANGED <<name, selector, _components, hashSeed, sig>>

(***************************************************************************)
(* list(set(xs)): the distinct elements of xs, in the order in which this  *)
(* process iterates a set of str (universe: an enumeration of all strings  *)
(* that can occur; hashSeed picks the direction).                          *)
(***************************************************************************)
Reverse(s) == [i \in 1..Len(s) |-> s[Len(s) + 1 - i]]

SetOrder(universe) == IF hashSeed = 0 THEN universe ELSE Reverse(universe)

\* A variant that returns the list as it is, without list(set(...)).
ListWithoutSet(xs, universe) == xs

ListOfSet(xs, universe) ==
    LET In(x) == x \in Range(xs)
    IN SelectSeq(SetOrder(universe), In)

(***************************************************************************)
(* The property dependencies.  deps is the component's own list object     *)
(* (deps = self._dependencies), so deps.extend() grows _dependencies by    *)
(* every subcomponent's result; st is the state of all the lists as the    *)
(* recursion goes.                                                         *)
(***************************************************************************)
RECURSIVE DependenciesOf(_, _, _)
RECURSIVE DependenciesLoop(_, _, _, _)
DependenciesLoop(self, i, st, fuel) ==
    IF i > Len(_components[self])
    THEN [deps |-> st, value |-> ListOfSet(st[self], DepSeq), err |-> FALSE]
    ELSE LET r == DependenciesOf(_components[self][i], st, fuel - 1)
         IN IF r.err THEN r
            ELSE DependenciesLoop(self, i + 1,
                    [r.deps EXCEPT ![self] = @ \o r.value], fuel)

DependenciesOf(self, st, fuel) ==
    IF fuel = 0 THEN [deps |-> st, value |-> <<>>, err |-> TRUE]
    ELSE DependenciesLoop(self, 1, st, fuel)

Dependencies(self) ==
    LET r == DependenciesOf(self, _dependencies, RecursionLimit)
    IN /\ SumLen(r.deps, Comps) <= MaxDepLen
       /\ _dependencies' = r.deps
       /\ ret' = [op |-> "dependencies", self |-> self,
                  outcome |-> IF r.err THEN "RecursionError" ELSE "ok",
                  value |-> r.value]
       /\ UNCHANGED <<name, selector, _components, registered,
                      hashSeed, sig>>

(***************************************************************************)
(* calculate_dependencies: getattr(self.explainer, dep) for each dep of    *)
(* self.dependencies; the except clause builds a ValueError and drops it.  *)
(* failing: the explainer properties whose access raises.  accessed logs   *)
(* every getattr with whether it raised.                                   *)
(***************************************************************************)
Access(dep, failing) == [dep |-> dep, raised |-> dep \in failing]

\* A variant whose except clause raises the ValueError it builds.
RECURSIVE CalculateLoopRaising(_, _, _)
CalculateLoopRaising(deps, failing, accessed) ==
    IF deps = <<>> THEN [accessed |-> accessed, outcome |-> "ok"]
    ELSE LET a == Access(Head(deps), failing)
         IN IF a.raised
            THEN [accessed |-> Append(accessed, a), outcome |-> "ValueError"]
            ELSE CalculateLoopRaising(Tail(deps), failing, Append(accessed, a))

RECURSIVE CalculateLoop(_, _, _)
CalculateLoop(deps, failing, accessed) ==
    IF deps = <<>> THEN [accessed |-> accessed, outcome |-> "ok"]
    ELSE LET a == Access(Head(deps), failing)
         IN IF a.raised
            THEN \* except: ValueError(...) is built, not raised
                 CalculateLoop(Tail(deps), failing, Append(accessed, a))
            ELSE CalculateLoop(Tail(deps), failing, Append(accessed, a))

CalculateDependencies(self, failing) ==
    LET r == DependenciesOf(self, _dependencies, RecursionLimit)
        c == CalculateLoop(r.value, failing, <<>>)
    IN /\ SumLen(r.deps, Comps) <= MaxDepLen
       /\ _dependencies' = r.deps
       /\ ret' = [op |-> "calculate_dependencies", self |-> self,
                  outcome |-> IF r.err THEN "RecursionError" ELSE c.outcome,
                  value |-> IF r.err THEN <<>> ELSE c.accessed]
       /\ UNCHANGED <<name, selector, _components, registered,
                      hashSeed, sig>>

(***************************************************************************)
(* The attribute selector.  Subclasses set self.selector; pos_labels asks  *)
(* hasattr(self, 'selector') and isinstance(self.selector,                 *)
(* PosLabelSelector), and reads self.selector.name.  A selector is         *)
(* modelled by its class and its name.                                     *)
(***************************************************************************)
SelSeq == <<"A", "B">>

SelNames == Range(SelSeq)

Selectors == [cls : {"PosLabelSelector", "Other"}, name : SelNames]

SetSelector(self, sel) ==
    /\ selector' = [selector EXCEPT ![self] = sel]
    /\ ret' = [op |-> "set_selector", self |-> self, outcome |-> "ok",
               value |-> <<>>]
    /\ UNCHANGED <<name, _components, _dependencies, registered,
                   hashSeed, sig>>

\* 'pos-label-' + name
PosLabelId(n) == <<"pos-label-", n>>

PosSeq == [i \in 1..Len(SelSeq) |-> PosLabelId(SelSeq[i])]

\* A variant that asks hasattr(self, 'selector') only.
HasAnySelector(self) == selector[self] # NoAttr

HasPosLabelSelector(self) ==
    selector[self] # NoAttr /\ selector[self].cls = "PosLabelSelector"

(***************************************************************************)
(* The property pos_labels.                                                *)
(***************************************************************************)
RECURSIVE PosLabelsOf(_, _)
RECURSIVE PosLabelsLoop(_, _, _, _)
PosLabelsLoop(self, i, pos_labels, fuel) ==
    IF i > Len(_components[self])
    THEN [value |-> ListOfSet(pos_labels, PosSeq), err |-> FALSE]
    ELSE LET r == PosLabelsOf(_components[self][i], fuel - 1)
         IN IF r.err THEN r
            ELSE PosLabelsLoop(self, i + 1, pos_labels \o r.value, fuel)

PosLabelsOf(self, fuel) ==
    IF fuel = 0 THEN [value |-> <<>>, err |-> TRUE]
    ELSE PosLabelsLoop(self, 1,
            IF HasPosLabelSelector(self)
            THEN <<PosLabelId(selector[self].name)>> ELSE <<>>,
            fuel)

PosLabels(self) ==
    LET r == PosLabelsOf(self, RecursionLimit)
    IN /\ ret' = [op |-> "pos_labels", self |-> self,
                  outcome |-> IF r.err THEN "RecursionError" ELSE "ok",
                  value |-> r.value]
       /\ UNCHANGED <<name, selector, _components, _dependencies, registered,
                      hashSeed, sig>>

(***************************************************************************)
(* ExplainerComponent.__init__(explainer, title, name, header_mode).       *)
(* None is Python's None; uuid is what shortuuid's random(length=10)       *)
(* returned in this call.                                                  *)
(***************************************************************************)
ShortUuids == {"k3TqW9xZpL", "Xb7mRd2efQ"}

Constructed == {c \in Comps : name[c] # NoName}

Construct(self, nameArg, header_mode, uuid) ==
    /\ name[self] = NoName
    /\ \A c \in Comps : c < self => name[c] # NoName
    /\ IF header_mode # None
       THEN /\ ret' = [op |-> "__init__", self |-> self,
                       outcome |-> "ValueError", value |-> <<>>]
            /\ UNCHANGED <<name, _components, _dependencies>>
       ELSE /\ name' = [name EXCEPT ![self] =
                           IF nameArg = None THEN uuid ELSE nameArg]
            /\ _components' = [_components EXCEPT ![self] = <<>>]
            /\ _dependencies' = [_dependencies EXCEPT ![self] = <<>>]
            /\ ret' = [op |-> "__init__", self |-> self,
                       outcome |-> "ok", value |-> <<nameArg>>]
    /\ UNCHANGED <<selector, registered, hashSeed, sig>>

(***************************************************************************)
(* delegates_kwargs.  A signature is the list of its parameters; a         *)
(* parameter has a name, a kind and, maybe, a default                      *)
(* (default: v.default != inspect.Parameter.empty).                        *)
(***************************************************************************)
Param(n, kind, default) == [name |-> n, kind |-> kind, default |-> default]

KindRank(kind) ==
    CASE kind = "POSITIONAL_OR_KEYWORD" -> 1
      [] kind = "VAR_POSITIONAL" -> 2
      [] kind = "KEYWORD_ONLY" -> 3
      [] kind = "VAR_KEYWORD" -> 4

ParamNames(params) == {params[i].name : i \in 1..Len(params)}

\* The parameter lists a def statement can declare.
ValidDef(params) ==
    /\ \A i, j \in 1..Len(params) :
          i < j => /\ params[i].name # params[j].name
                   /\ KindRank(params[i].kind) <= KindRank(params[j].kind)
                   /\ (params[i].kind = "VAR_KEYWORD"
                          => params[j].kind # "VAR_KEYWORD")
                   /\ (/\ params[i].kind = "POSITIONAL_OR_KEYWORD"
                       /\ params[j].kind = "POSITIONAL_OR_KEYWORD"
                       /\ params[i].default) => params[j].default

\* The decorated function (or the __init__ of the decorated class).
FParams ==
    [name : {"a", "b"}, kind : {"POSITIONAL_OR_KEYWORD", "KEYWORD_ONLY"},
     default : BOOLEAN]
        \cup {Param("args", "VAR_POSITIONAL", FALSE),
              Param("kwargs", "VAR_KEYWORD", FALSE),
              Param("kw", "VAR_KEYWORD", FALSE)}

FSigs == {params \in SeqsUpTo(FParams, MaxParams) : ValidDef(params)}

\* The function `to`, or the __init__ of a base class.
TargetParams ==
    [name : {"b", "x"}, kind : {"POSITIONAL_OR_KEYWORD"}, default : BOOLEAN]
        \cup [name : {"b", "x"}, kind : {"KEYWORD_ONLY"}, default : {TRUE}]

TargetSigs ==
    {params \in SeqsUpTo(TargetParams, MaxTargetParams) : ValidDef(params)}

\* sigd.pop('kwargs'): the dict without the key
Pop(sigd, key) ==
    LET Other(v) == v.name # key
    IN SelectSeq(sigd, Other)

\* sigd[key] = v: in place when the key is there, at the end when not
SetItem(sigd, key, v) ==
    IF key \in ParamNames(sigd)
    THEN [i \in 1..Len(sigd) |-> IF sigd[i].name = key THEN v ELSE sigd[i]]
    ELSE Append(sigd, v)

\* s2 = {k: v for k, v in signature(to_f).parameters.items()
\*       if v.default != empty and k not in sigd};  sigd.update(s2)
Inherit(sigd, to_f) ==
    LET Wanted(v) == v.default /\ v.name \notin ParamNames(sigd)
    IN sigd \o SelectSeq(to_f, Wanted)

RECURSIVE InheritBases(_, _)
InheritBases(sigd, bases) ==
    IF bases = <<>> THEN sigd
    ELSE InheritBases(Inherit(sigd, Head(bases)), Tail(bases))

\* Signature.replace(parameters=...) builds a Signature, which validates the
\* order of the kinds and that no positional parameter without a default
\* follows one with a default.
ValidSignature(params) ==
    \A i, j \in 1..Len(params) :
       i < j => /\ KindRank(params[i].kind) <= KindRank(params[j].kind)
                /\ (/\ params[i].kind = "POSITIONAL_OR_KEYWORD"
                    /\ params[j].kind = "POSITIONAL_OR_KEYWORD"
                    /\ params[i].default) => params[j].default

\* The argument `to`: None, or a function with these parameters.
ToNone == [none |-> TRUE, params |-> <<>>]

ToFunction(params) == [none |-> FALSE, params |-> params]

\* The decorator: the outcome and the signature of the decorated object.
DelegatesKwargs(f, to, bases, keep) ==
    IF "kwargs" \notin ParamNames(f)
    THEN [outcome |-> "KeyError", signature |-> f]
    ELSE LET k == CHOOSE v \in Range(f) : v.name = "kwargs"
             sigd == Pop(f, "kwargs")
             s == IF to = ToNone THEN InheritBases(sigd, bases)
                  ELSE Inherit(sigd, to.params)
             new == IF keep THEN SetItem(s, "kwargs", k) ELSE s
         IN IF ValidSignature(new)
            THEN [outcome |-> "ok", signature |-> new]
            ELSE [outcome |-> "ValueError", signature |-> f]

Decorate ==
    /\ sig.phase = "declared"
    /\ LET r == DelegatesKwargs(sig.f, sig.to, sig.bases, sig.keep)
       IN sig' = [sig EXCEPT !.phase = "decorated",
                             !.outcome = r.outcome,
                             !.signature = r.signature]
    /\ UNCHANGED <<name, selector, _components, _dependencies, registered,
                   hashSeed, ret>>

(***************************************************************************)
(* The state after constructing NComp components with distinct names and   *)
(* nothing registered.                                                     *)
(***************************************************************************)
DefaultName(c) == <<"name", c>>

InitBuilt ==
    /\ name = [c \in Comps |-> DefaultName(c)]
    /\ selector = [c \in Comps |-> NoAttr]
    /\ _components = [c \in Comps |-> <<>>]
    /\ _dependencies = [c \in Comps |-> <<>>]
    /\ registered = [c \in Comps |-> {}]
    /\ hashSeed = 0
    /\ ret = NoRet
    /\ sig = NoSig

Init == InitBuilt

(***************************************************************************)
(* Spec: a layout is assembled as the composites do (components, or one    *)
(* list of components, passed to register_components), and callbacks are   *)
(* registered from any root.                                               *)
(***************************************************************************)
Next ==
    \/ \E self \in Comps,
          components \in SeqsUpTo(CompOnlyArgs, MaxArgs) \ {<<>>} :
            RegisterComponents(self, components)
    \/ \E self \in Comps, comps \in CompListArgs :
            RegisterComponents(self, <<comps>>)
    \/ \E self \in Comps : RegisterCallbacks(self)

Spec == Init /\ [][Next]_vars

(***************************************************************************)
(* SpecRegComps, SpecRegDeps: register_components and                      *)
(* register_dependencies called with arguments of every kind.              *)
(***************************************************************************)
CompCalls == SeqsUpTo(CompArgs, MaxArgs) \ {<<>>}

NextRegComps ==
    \E self \in Comps, components \in CompCalls :
        RegisterComponents(self, components)

SpecRegComps == Init /\ [][NextRegComps]_vars

DepCalls == SeqsUpTo(DepArgs, MaxArgs) \ {<<>>}

NextRegDeps ==
    \E self \in Comps, dependencies \in DepCalls :
        RegisterDependencies(self, dependencies)

SpecRegDeps == Init /\ [][NextRegDeps]_vars

(***************************************************************************)
(* SpecDeps: components and dependencies are registered one per call, the  *)
(* property dependencies is read and calculate_dependencies is called, in  *)
(* any order.                                                              *)
(***************************************************************************)
InitDeps ==
    /\ name = [c \in Comps |-> DefaultName(c)]
    /\ selector = [c \in Comps |-> NoAttr]
    /\ _components = [c \in Comps |-> <<>>]
    /\ _dependencies = [c \in Comps |-> <<>>]
    /\ registered = [c \in Comps |-> {}]
    /\ hashSeed \in {0, 1}
    /\ ret = NoRet
    /\ sig = NoSig

NextDeps ==
    \/ \E self \in Comps, comp \in CompOnlyArgs :
            RegisterComponents(self, <<comp>>)
    \/ \E self \in Comps, dep \in StrArgs :
            RegisterDependencies(self, <<dep>>)
    \/ \E self \in Comps : Dependencies(self)
    \/ \E self \in Comps, failing \in SUBSET DepNames :
            CalculateDependencies(self, failing)

SpecDeps == InitDeps /\ [][NextDeps]_vars

(***************************************************************************)
(* SpecPos: selectors are set, components are registered one per call and  *)
(* the property pos_labels is read, in any order.                          *)
(***************************************************************************)
InitPos ==
    /\ name = [c \in Comps |-> DefaultName(c)]
    /\ selector = [c \in Comps |-> NoAttr]
    /\ _components = [c \in Comps |-> <<>>]
    /\ _dependencies = [c \in Comps |-> <<>>]
    /\ registered = [c \in Comps |-> {}]
    /\ hashSeed \in {0, 1}
    /\ ret = NoRet
    /\ sig = NoSig

NextPos ==
    \/ \E self \in Comps, sel \in Selectors : SetSelector(self, sel)
    \/ \E self \in Comps, comp \in CompOnlyArgs :
            RegisterComponents(self, <<comp>>)
    \/ \E self \in Comps : PosLabels(self)

SpecPos == InitPos /\ [][NextPos]_vars

(***************************************************************************)
(* SpecNames: components are constructed, with a name or without.          *)
(***************************************************************************)
InitNames ==
    /\ name = [c \in Comps |-> NoName]
    /\ selector = [c \in Comps |-> NoAttr]
    /\ _components = [c \in Comps |-> <<>>]
    /\ _dependencies = [c \in Comps |-> <<>>]
    /\ registered = [c \in Comps |-> {}]
    /\ hashSeed = 0
    /\ ret = NoRet
    /\ sig = NoSig

NextNames ==
    \E self \in Comps, nameArg \in UserNames \cup {None},
       header_mode \in {None, "hero"}, uuid \in ShortUuids :
        Construct(self, nameArg, header_mode, uuid)

SpecNames == InitNames /\ [][NextNames]_vars

(***************************************************************************)
(* SpecSig: one use of delegates_kwargs(to, keep), on a function (to is a  *)
(* function) or on a class (to is None, bases: the __init__ signatures of  *)
(* its base classes).                                                      *)
(***************************************************************************)
InitSig ==
    /\ name = [c \in Comps |-> NoName]
    /\ selector = [c \in Comps |-> NoAttr]
    /\ _components = [c \in Comps |-> <<>>]
    /\ _dependencies = [c \in Comps |-> <<>>]
    /\ registered = [c \in Comps |-> {}]
    /\ hashSeed = 0
    /\ ret = NoRet
    /\ \E f \in FSigs, keep \in BOOLEAN :
          \/ \E to \in TargetSigs :
                sig = [phase |-> "declared", f |-> f, to |-> ToFunction(to),
                       bases |-> <<>>, keep |-> keep,
                       outcome |-> "", signature |-> f]
          \/ \E bases \in SeqsUpTo(TargetSigs, MaxBases) \ {<<>>} :
                sig = [phase |-> "declared", f |-> f, to |-> ToNone,
                       bases |-> bases, keep |-> keep,
                       outcome |-> "", signature |-> f]

NextSig == Decorate

SpecSig == InitSig /\ [][NextSig]_vars

(***************************************************************************)
(* The registered hierarchy, for the statements below.                     *)
(***************************************************************************)
Kids(c) == Range(_components[c])

RECURSIVE Closure(_)
Closure(S) ==
    LET T == S \cup UNION {Kids(x) : x \in S}
    IN IF T = S THEN S ELSE Closure(T)

Descendants(c) == Closure(Kids(c))

Subtree(c) == {c} \cup Descendants(c)

\* No component under root (root included) is registered below itself.
Acyclic(root) == \A c \in Subtree(root) : c \notin Descendants(c)

\* The registrations under root form a tree: root is under nothing, and every
\* other component was registered once, on one parent.
IsTree(root) ==
    /\ root \notin Descendants(root)
    /\ \A d \in Descendants(root) :
          Cardinality({e \in Subtree(root) \X (1..MaxEdges) :
                          /\ e[2] <= Len(_components[e[1]])
                          /\ _components[e[1]][e[2]] = d}) = 1

\* The positions of an event in a log.
Positions(log, e) == {i \in 1..Len(log) : log[i] = e}

At(log, e) == CHOOSE i \in Positions(log, e) : TRUE

(***************************************************************************)
(* C1.  On a tree of components, register_callbacks(app) on the root calls *)
(* register_callbacks on every registered subcomponent, in registration    *)
(* order and recursively, before the root's own _register_callbacks: every *)
(* component of the tree gets _register_callbacks exactly once, after all  *)
(* its descendants.                                                        *)
(***************************************************************************)
C1_CallbacksPostOrder ==
    (ret.op = "register_callbacks" /\ IsTree(ret.self)) =>
        LET log == ret.value
            Own(c) == Event("own", c)
            Call(c) == Event("call", c)
        IN /\ ret.outcome = "ok"
           /\ \A c \in Comps :
                 Cardinality(Positions(log, Own(c))) =
                    IF c \in Subtree(ret.self) THEN 1 ELSE 0
           /\ \A c \in Subtree(ret.self) :
                 /\ Cardinality(Positions(log, Call(c))) = 1
                 /\ At(log, Call(c)) < At(log, Own(c))
                 /\ \A d \in Descendants(c) : At(log, Own(d)) < At(log, Own(c))
                 /\ \A i \in 1..Len(_components[c]) :
                       /\ At(log, Call(c)) < At(log, Call(_components[c][i]))
                       /\ \A j \in 1..Len(_components[c]) :
                             i < j => At(log, Own(_components[c][i]))
                                        < At(log, Call(_components[c][j]))

\* A root with a subcomponent that has a subcomponent of its own.
C1_Witness ==
    /\ ret.op = "register_callbacks"
    /\ IsTree(ret.self)
    /\ \E c \in Kids(ret.self) : Kids(c) # {}
    /\ Len(ret.value) = 2 * NComp

(***************************************************************************)
(* C2.  The property dependencies returns a list without duplicates whose  *)
(* elements are the strings registered on the component and on every       *)
(* component of its subtree, at any depth.                                 *)
(***************************************************************************)
RegisteredUnder(root) == UNION {registered[c] : c \in Subtree(root)}

C2_DependenciesUnion ==
    (ret.op = "dependencies" /\ Acyclic(ret.self)) =>
        /\ ret.outcome = "ok"
        /\ NoDup(ret.value)
        /\ Range(ret.value) = RegisteredUnder(ret.self)

\* Read on a root whose grandchild registered a string the root did not.
C2_Witness ==
    /\ ret.op = "dependencies"
    /\ Acyclic(ret.self)
    /\ registered[ret.self] # {}
    /\ \E c \in Kids(ret.self) : \E g \in Kids(c) :
          registered[g] \ registered[ret.self] # {}
    /\ Len(ret.value) = 2

(***************************************************************************)
(* C6.  register_components appends every ExplainerComponent argument and  *)
(* every ExplainerComponent element of an iterable argument, in order; any *)
(* other argument or element is skipped without failing the call and       *)
(* without stopping the registration of the rest.                          *)
(***************************************************************************)
RECURSIVE ComponentsIn(_)
ComponentsIn(xs) ==
    IF xs = <<>> THEN <<>>
    ELSE LET x == Head(xs)
         IN (CASE x.t = "comp" -> <<x.id>>
               [] x.t = "iterable" -> ComponentsIn(x.items)
               [] OTHER -> <<>>) \o ComponentsIn(Tail(xs))

C6_RegisterComponentsSkipsOthers ==
    [][\A self \in Comps, components \in CompCalls :
          RegisterComponents(self, components) =>
              /\ ret'.outcome = "ok"
              /\ _components'[self] =
                    _components[self] \o ComponentsIn(components)]_vars

(***************************************************************************)
(* C7.  register_dependencies appends every str argument (whole) and every *)
(* str element of a non-str iterable argument; any other argument or       *)
(* element is skipped without failing the call and without stopping the    *)
(* registration of the rest.                                               *)
(***************************************************************************)
RECURSIVE StringsIn(_)
StringsIn(xs) ==
    IF xs = <<>> THEN <<>>
    ELSE LET x == Head(xs)
         IN (CASE x.t = "str" -> <<x.s>>
               [] x.t = "iterable" -> StringsIn(x.items)
               [] OTHER -> <<>>) \o StringsIn(Tail(xs))

C7_RegisterDependenciesSkipsOthers ==
    [][\A self \in Comps, dependencies \in DepCalls :
          RegisterDependencies(self, dependencies) =>
              /\ ret'.outcome = "ok"
              /\ _dependencies'[self] =
                    _dependencies[self] \o StringsIn(dependencies)]_vars

(***************************************************************************)
(* C8.  calculate_dependencies accesses every property of                  *)
(* self.dependencies on the explainer; an access that fails does not       *)
(* propagate to the caller and the remaining ones are still accessed.      *)
(***************************************************************************)
C8_CalculateAccessesAll ==
    (ret.op = "calculate_dependencies" /\ Acyclic(ret.self)) =>
        /\ ret.outcome = "ok"
        /\ {a.dep : a \in Range(ret.value)} = RegisteredUnder(ret.self)

\* An access raised and another dependency was accessed after it.
C8_Witness ==
    /\ ret.op = "calculate_dependencies"
    /\ Acyclic(ret.self)
    /\ Len(ret.value) = 2
    /\ ret.value[1].raised
    /\ Descendants(ret.self) # {}

(***************************************************************************)
(* C3.  The property pos_labels returns a list without duplicates whose    *)
(* elements are 'pos-label-' + c.selector.name for the component itself    *)
(* and every component c of its subtree whose selector is a                *)
(* PosLabelSelector; the other components contribute nothing.              *)
(***************************************************************************)
C3_PosLabelsOfSubtree ==
    (ret.op = "pos_labels" /\ Acyclic(ret.self)) =>
        /\ ret.outcome = "ok"
        /\ NoDup(ret.value)
        /\ Range(ret.value) =
              {PosLabelId(selector[c].name) :
                  c \in {d \in Subtree(ret.self) :
                            /\ selector[d] # NoAttr
                            /\ selector[d].cls = "PosLabelSelector"}}

\* The root and its grandchild have PosLabelSelectors of one name (one
\* entry, not two), the component between them a selector of another class.
C3_Witness ==
    /\ ret.op = "pos_labels"
    /\ Acyclic(ret.self)
    /\ Len(ret.value) = 1
    /\ HasPosLabelSelector(ret.self)
    /\ \E c \in Kids(ret.self) :
          /\ selector[c] # NoAttr
          /\ selector[c].cls = "Other"
          /\ selector[c].name # selector[ret.self].name
          /\ \E g \in Kids(c) :
                /\ HasPosLabelSelector(g)
                /\ selector[g].name = selector[ret.self].name

(***************************************************************************)
(* C5.  Every ExplainerComponent gets a name that is unique among all the  *)
(* components: no two components have the same name, however they were     *)
(* constructed.                                                            *)
(***************************************************************************)
C5_NamesUnique ==
    \A c, d \in Constructed : c # d => name[c] # name[d]

(***************************************************************************)
(* C4.  delegates_kwargs(to, keep) on a function or class whose signature  *)
(* has a **kwargs parameter replaces **kwargs by the parameters of the     *)
(* target: the new parameter list is the original parameters without       *)
(* kwargs, in their order, then the target parameters that have a default  *)
(* and whose name is not an original parameter, then kwargs if and only if *)
(* keep is True; the decorated object is returned.                         *)
(***************************************************************************)
HasVarKwargs(f) ==
    \E i \in 1..Len(f) : f[i].name = "kwargs" /\ f[i].kind = "VAR_KEYWORD"

RECURSIVE Delegated(_, _, _)
Delegated(targets, original, taken) ==
    IF targets = <<>> THEN <<>>
    ELSE LET New(v) == v.default /\ v.name \notin (original \cup taken)
             add == SelectSeq(Head(targets), New)
         IN add \o Delegated(Tail(targets), original, taken \cup ParamNames(add))

C4_KwargsReplaced ==
    (sig.phase = "decorated" /\ HasVarKwargs(sig.f)) =>
        LET IsKwargs(v) == v.name = "kwargs"
            NotKwargs(v) == v.name # "kwargs"
            targets == IF sig.to = ToNone THEN sig.bases ELSE <<sig.to.params>>
        IN /\ sig.outcome = "ok"
           /\ sig.signature =
                 SelectSeq(sig.f, NotKwargs)
                    \o Delegated(targets, ParamNames(sig.f), {})
                    \o (IF sig.keep THEN SelectSeq(sig.f, IsKwargs) ELSE <<>>)

====
